---- MODULE Spec2Model ----
(***************************************************************************)
(* Model of the simulation engine of ecosim.py: the food grid automaton    *)
(* (FoodGrid), the two decision policies (Herbivore.decide,                *)
(* Predator.decide) and the body of the main loop of run_game, which       *)
(* resolves one tick: predator phase, herbivore phase, grass.update().     *)
(*                                                                         *)
(* The configuration parameters are module-wide globals that               *)
(* launch_simulation assigns from the dictionary the configuration window  *)
(* returns, so they are run-time inputs: the variable cfg holds the        *)
(* dictionary, chosen in Init among a few small configurations.            *)
(*                                                                         *)
(* random.choice / random.shuffle / random.randrange are modelled as       *)
(* nondeterministic choices over every outcome they can return.            *)
(***************************************************************************)
EXTENDS Integers, Sequences, FiniteSets, TLC

VARIABLES
    cfg,      \* the configuration dictionary (launch_simulation's cfg)
    rocks,    \* set of blocked cells, computed once in run_game
    grass,    \* the FoodGrid: [food : cell -> BOOLEAN, timer : land cell -> Int]
    herb,     \* list of Herbivore objects
    pred,     \* list of Predator objects
    t,        \* tick counter of run_game
    nextId,   \* object identity: the next fresh identity for a constructed agent
    start,    \* observation: herb, pred, grass and rocks as they were when the tick began
    plog,     \* observation: what the predator phase of the last tick did, per predator
    hlog,     \* observation: what the herbivore phase of the last tick did, per herbivore
    born,     \* observation: identities of the agents constructed in the last tick
    consumed, \* observation: identities of the herbivores eaten in the last tick
    starved,  \* observation: identities of every agent hunger() has reported dead
    eatLog,   \* observation: per cell eaten so far, update() calls since the last eat
    pre,      \* observation: the grid the last update() call started from
    calls     \* number of FoodGrid calls made by the FoodGrid driver (SpecFood)

vars == <<cfg, rocks, grass, herb, pred, t, nextId, start, plog, hlog, born,
          consumed, starved, eatLog, pre, calls>>

---------------------------------------------------------------------------
(* Bounds of the exploration *)

MaxTicks == 2
MaxHerb == 3
MaxPred == 2

---------------------------------------------------------------------------
(* Configuration: PARAMS and the globals launch_simulation sets from cfg *)

\* The defaults of PARAMS, on a 3 x 3 grid.
DefaultCfg ==
    [ GRID_W |-> 3, GRID_H |-> 3, FOOD_REGROW |-> 30,
      H_INIT |-> 10, H_MOVE_COST |-> 1, H_BASAL_COST |-> 0, H_FOOD_GAIN |-> 3,
      H_FOOD_WAIT |-> 1, H_REPRO_COST |-> 5, H_REPRO_TH |-> 25,
      P_INIT |-> 30, P_MOVE_COST |-> 1, P_BASAL_COST |-> 0, P_FOOD_GAIN |-> 10,
      P_FOOD_WAIT |-> 2, P_REPRO_COST |-> 10, P_REPRO_TH |-> 70 ]

\* A configuration of small energies and no digestion wait, in which feeding,
\* reproduction and starvation all happen within two ticks.
SmallCfg ==
    [ GRID_W |-> 3, GRID_H |-> 3, FOOD_REGROW |-> 1,
      H_INIT |-> 2, H_MOVE_COST |-> 1, H_BASAL_COST |-> 0, H_FOOD_GAIN |-> 4,
      H_FOOD_WAIT |-> 0, H_REPRO_COST |-> 1, H_REPRO_TH |-> 5,
      P_INIT |-> 2, P_MOVE_COST |-> 1, P_BASAL_COST |-> 0, P_FOOD_GAIN |-> 4,
      P_FOOD_WAIT |-> 0, P_REPRO_COST |-> 1, P_REPRO_TH |-> 5 ]

\* The small configuration with one tick of digestion after feeding, in which
\* an agent at its reproduction threshold can be digesting.
DigestCfg == [SmallCfg EXCEPT !.H_FOOD_WAIT = 1, !.P_FOOD_WAIT = 1]

Configs == {DefaultCfg, SmallCfg, DigestCfg}

GRID_W == cfg.GRID_W
GRID_H == cfg.GRID_H
FOOD_REGROW == cfg.FOOD_REGROW
H_INIT == cfg.H_INIT
H_MOVE_COST == cfg.H_MOVE_COST
H_BASAL_COST == cfg.H_BASAL_COST
H_FOOD_GAIN == cfg.H_FOOD_GAIN
H_FOOD_WAIT == cfg.H_FOOD_WAIT
H_REPRO_COST == cfg.H_REPRO_COST
H_REPRO_TH == cfg.H_REPRO_TH
P_INIT == cfg.P_INIT
P_MOVE_COST == cfg.P_MOVE_COST
P_BASAL_COST == cfg.P_BASAL_COST
P_FOOD_GAIN == cfg.P_FOOD_GAIN
P_FOOD_WAIT == cfg.P_FOOD_WAIT
P_REPRO_COST == cfg.P_REPRO_COST
P_REPRO_TH == cfg.P_REPRO_TH

---------------------------------------------------------------------------
(* Grid geometry *)

\* DIRS = [(0,-1),(1,0),(0,1),(-1,0)], indexed 0..3 in the code (N,E,S,W)
DIRS == <<(<<0, -1>>), (<<1, 0>>), (<<0, 1>>), (<<-1, 0>>)>>

DirIdx == 0 .. 3

\* a helper that does not wrap
wrap_none(v, size) == v

\* wrap = lambda v, size: v % size
wrap(v, size) == v % size

\* every (x, y) with x in range(GRID_W) and y in range(GRID_H)
Cells == (0 .. (GRID_W - 1)) \X (0 .. (GRID_H - 1))

\* (wrap(x + dx, GRID_W), wrap(y + dy, GRID_H)) for (dx, dy) = DIRS[idx]
Neighbour(c, idx) ==
    <<wrap(c[1] + DIRS[idx + 1][1], GRID_W), wrap(c[2] + DIRS[idx + 1][2], GRID_H)>>

\* Herbivore.pos / Predator.pos
pos(a) == <<a.x, a.y>>

\* {a.pos() for a in agents}
Positions(agents) == {pos(agents[i]) : i \in 1 .. Len(agents)}

---------------------------------------------------------------------------
(* FoodGrid *)

\* FoodGrid.has
has(g, c) == g.food[c]

\* FoodGrid.eat
eat(g, c) ==
    [food |-> [g.food EXCEPT ![c] = FALSE],
     timer |-> [g.timer EXCEPT ![c] = FOOD_REGROW]]

\* FoodGrid._has_food_neighbour
has_food_neighbour(g, c) == \E idx \in DirIdx : g.food[Neighbour(c, idx)]

\* a first pass that counts down every foodless land cell, whatever its
\* neighbours carry
Ticking_ungated(g) == {c \in DOMAIN g.timer : ~g.food[c]}

\* First pass of FoodGrid.update: the foodless land cells that have a food
\* neighbour on the old grid; their timers are decremented.
Ticking(g) == {c \in DOMAIN g.timer : ~g.food[c] /\ has_food_neighbour(g, c)}

\* to_regrow with the comparison "< 0" in place of "<= 0"
to_regrow_late(g) == {c \in Ticking(g) : g.timer[c] - 1 < 0}

\* to_regrow of FoodGrid.update: the ticking cells whose timer reached <= 0
to_regrow(g) == {c \in Ticking(g) : g.timer[c] - 1 <= 0}

\* FoodGrid.update
update(g) ==
    LET ticking == Ticking(g)
        regrow  == to_regrow(g)
    IN  [food |-> [c \in DOMAIN g.food |-> IF c \in regrow THEN TRUE ELSE g.food[c]],
         timer |-> [c \in DOMAIN g.timer |->
                      IF c \in regrow THEN 0
                      ELSE IF c \in ticking THEN g.timer[c] - 1
                      ELSE g.timer[c]]]

---------------------------------------------------------------------------
(* Agents.  An agent is a record of the fields of its object, plus id, the   *)
(* identity of the object.                                                   *)

\* Herbivore.__init__
Herbivore(id, c, dir_idx) ==
    [id |-> id, x |-> c[1], y |-> c[2], facing |-> dir_idx, energy |-> H_INIT,
     intended |-> c, wait |-> 0]

\* Predator.__init__
Predator(id, c) ==
    [id |-> id, x |-> c[1], y |-> c[2], energy |-> P_INIT, intended |-> c, wait |-> 0]

\* ahead in Herbivore.decide: the cell in front of the herbivore
Ahead(h) == Neighbour(pos(h), h.facing)

\* opts without the test "not in rocks"
Herbivore_opts_rocky(h, occupied) ==
    {idx \in DirIdx : Neighbour(pos(h), idx) \notin occupied}

\* opts of Herbivore.decide, by direction index: the neighbours that are
\* neither occupied nor rock
Herbivore_opts(h, occupied) ==
    {idx \in DirIdx : Neighbour(pos(h), idx) \notin occupied
                      /\ Neighbour(pos(h), idx) \notin rocks}

\* The outcomes random.choice(opts) can have in Herbivore.decide: a direction
\* index of opts (0 where the code makes no random choice).
Herbivore_choices(h, g, occupied) ==
    IF has(g, Ahead(h)) \/ Herbivore_opts(h, occupied) = {}
    THEN {0}
    ELSE Herbivore_opts(h, occupied)

\* Herbivore.decide, with ch the outcome of random.choice
Herbivore_decide(h, g, occupied, ch) ==
    IF has(g, Ahead(h))
    THEN [h EXCEPT !.intended = Ahead(h)]
    ELSE IF Herbivore_opts(h, occupied) # {}
         THEN [h EXCEPT !.intended = Neighbour(pos(h), ch), !.facing = ch]
         ELSE [h EXCEPT !.intended = pos(h)]

\* a move() that ignores digestion
Herbivore_move_always(h) == [h EXCEPT !.x = h.intended[1], !.y = h.intended[2]]

\* Herbivore.move
Herbivore_move(h) ==
    IF h.wait # 0
    THEN [h EXCEPT !.wait = @ - 1]
    ELSE [h EXCEPT !.x = h.intended[1], !.y = h.intended[2]]

\* Herbivore.forage on grass g: the herbivore and the grass afterwards
Herbivore_forage(h, g) ==
    IF has(g, pos(h))
    THEN [agent |-> [h EXCEPT !.energy = @ + H_FOOD_GAIN, !.wait = H_FOOD_WAIT],
          grass |-> eat(g, pos(h))]
    ELSE [agent |-> h, grass |-> g]

\* the charge of a hunger() that ignores digestion: always the move cost
Herbivore_charge_move(h) == H_MOVE_COST

\* the charge of a hunger() that never charges a move: always the basal cost
Herbivore_charge_basal(h) == H_BASAL_COST

\* the charge of Herbivore.hunger
Herbivore_charge(h) == IF h.wait # 0 THEN H_BASAL_COST ELSE H_MOVE_COST

\* Herbivore.hunger: the herbivore after the charge (the method returns Dead of it)
Herbivore_hunger(h) == [h EXCEPT !.energy = @ - Herbivore_charge(h)]

\* the value of a hunger() that returns energy < 0
Dead_strict(a) == a.energy < 0

\* the value hunger() returns: energy <= 0
Dead(a) == a.energy <= 0

---------------------------------------------------------------------------
(* Arbitration and move resolution, shared shape of both phases *)

\* The keys of the defaultdict destH / moveP in insertion order, each given by
\* the index of the first agent that intends it.
GroupLeaders(agents) ==
    {i \in 1 .. Len(agents) :
        \A j \in 1 .. (i - 1) : agents[j].intended # agents[i].intended}

RECURSIVE SortedSeq(_)
\* the elements of a set of numbers, ascending
SortedSeq(S) ==
    IF S = {} THEN <<>>
    ELSE LET m == CHOOSE x \in S : \A y \in S : x <= y
         IN  <<m>> \o SortedSeq(S \ {m})

\* a resolution that lets every agent move, in list order, instead of one
\* per group
Arbitrations_everyone(agents) == {[i \in 1 .. Len(agents) |-> i]}

\* The outcomes of "for group in dest.values(): mover = random.choice(group)":
\* one index per group, in the order the groups are visited.
Arbitrations(agents) ==
    LET leaders == SortedSeq(GroupLeaders(agents))
    IN  {m \in [1 .. Len(leaders) -> 1 .. Len(agents)] :
           \A k \in 1 .. Len(leaders) :
              agents[m[k]].intended = agents[leaders[k]].intended}

\* a reproduction test that only looks at the energy
Herbivore_reproduces_anywhere(mover, old, occ_after) == mover.energy >= H_REPRO_TH

\* the reproduction test of the herbivore loop, after mover.move()
Herbivore_reproduces(mover, old, occ_after) ==
    mover.energy >= H_REPRO_TH /\ old \notin occ_after

\* a debit that forgets the energy handed to the newborn
Herbivore_debit_cost_only(mover) == [mover EXCEPT !.energy = @ - H_REPRO_COST]

\* mover.energy -= H_REPRO_COST + H_INIT
Herbivore_debit(mover) == [mover EXCEPT !.energy = @ - (H_REPRO_COST + H_INIT)]

RECURSIVE ResolveHerb(_, _, _)
\* The loop "for group in destH.values()" from its k-th group on. st holds the
\* herbivores, occ_after and new_herb (the vacated cell and the index of the
\* parent of each newborn, in order).
ResolveHerb(st, movers, k) ==
    IF k > Len(movers) THEN st
    ELSE LET i     == movers[k]
             old   == pos(st.agents[i])
             moved == Herbivore_move(st.agents[i])
             occ   == st.occ_after \cup {pos(moved)}
             rep   == Herbivore_reproduces(moved, old, occ)
         IN  ResolveHerb(
                 [agents |-> [st.agents EXCEPT ![i] =
                                 IF rep THEN Herbivore_debit(moved) ELSE moved],
                  occ_after |-> occ,
                  new |-> IF rep THEN Append(st.new, [parent |-> i, cell |-> old])
                          ELSE st.new],
                 movers, k + 1)

RECURSIVE ForageAll(_, _, _)
\* "for h in herb: h.forage(grass)" from the i-th herbivore on
ForageAll(agents, g, i) ==
    IF i > Len(agents) THEN [agents |-> agents, grass |-> g]
    ELSE LET r == Herbivore_forage(agents[i], g)
         IN  ForageAll([agents EXCEPT ![i] = r.agent], r.grass, i + 1)

\* the indices of the herbivores that found food in that loop: forage() eats
\* exactly when it resets the timer of the cell it stands on
Foragers(before, g) ==
    {i \in 1 .. Len(before) :
        has(g, pos(before[i]))
        /\ \A j \in 1 .. (i - 1) : pos(before[j]) # pos(before[i])}

---------------------------------------------------------------------------
(* Predator *)

\* abs
Abs(n) == IF n < 0 THEN -n ELSE n

\* min of two numbers
Min2(a, b) == IF a <= b THEN a ELSE b

\* Predator._dist
dist(a, b, size) == Min2(Abs(a - b), size - Abs(a - b))

\* the key of min() in Predator.decide: toroidal Manhattan distance to cell c
Predator_key(p, c) == dist(c[1], p.x, GRID_W) + dist(c[2], p.y, GRID_H)

\* target = min(herb_positions, key=...): the first position of least key
Predator_target(p, herb_positions) ==
    LET k == CHOOSE k \in 1 .. Len(herb_positions) :
                 /\ \A j \in 1 .. Len(herb_positions) :
                       Predator_key(p, herb_positions[k]) <= Predator_key(p, herb_positions[j])
                 /\ \A j \in 1 .. (k - 1) :
                       Predator_key(p, herb_positions[j]) > Predator_key(p, herb_positions[k])
    IN  herb_positions[k]

\* steps that take the long way round on each axis
Predator_steps_away(p, target) ==
    LET tx == target[1]
        ty == target[2]
        dx == IF (tx - p.x) % GRID_W < (p.x - tx) % GRID_W THEN -1 ELSE 1
        dy == IF (ty - p.y) % GRID_H < (p.y - ty) % GRID_H THEN -1 ELSE 1
        sx == IF p.x # tx THEN <<(<<wrap(p.x + dx, GRID_W), p.y>>)>> ELSE <<>>
        sy == IF p.y # ty THEN <<(<<p.x, wrap(p.y + dy, GRID_H)>>)>> ELSE <<>>
    IN  sx \o sy

\* steps of Predator.decide before the shuffle: the x step, then the y step
Predator_steps(p, target) ==
    LET tx == target[1]
        ty == target[2]
        dx == IF (tx - p.x) % GRID_W < (p.x - tx) % GRID_W THEN 1 ELSE -1
        dy == IF (ty - p.y) % GRID_H < (p.y - ty) % GRID_H THEN 1 ELSE -1
        sx == IF p.x # tx THEN <<(<<wrap(p.x + dx, GRID_W), p.y>>)>> ELSE <<>>
        sy == IF p.y # ty THEN <<(<<p.x, wrap(p.y + dy, GRID_H)>>)>> ELSE <<>>
    IN  sx \o sy

\* opts of the no-prey branch without the test "not in occupied"
Predator_opts_any(p, occupied) ==
    {idx \in DirIdx : Neighbour(pos(p), idx) \notin rocks}

\* opts of the no-prey branch of Predator.decide, by direction index
Predator_opts(p, occupied) ==
    {idx \in DirIdx : Neighbour(pos(p), idx) \notin occupied
                      /\ Neighbour(pos(p), idx) \notin rocks}

\* The outcomes of the random call of Predator.decide: without prey the
\* direction index random.choice(opts) picks, with prey whether
\* random.shuffle(steps) swaps the two steps (1) or not (0); 0 where the
\* outcome of the call cannot matter.
Predator_choices(p, herb_positions, occupied) ==
    IF Len(herb_positions) = 0
    THEN IF Predator_opts(p, occupied) = {} THEN {0} ELSE Predator_opts(p, occupied)
    ELSE IF Len(Predator_steps(p, Predator_target(p, herb_positions))) = 2
         THEN {0, 1} ELSE {0}

\* a decide() that does nothing when there is no prey: intended keeps the
\* value it had
Predator_decide_needs_prey(p, herb_positions, occupied, ch) ==
    IF Len(herb_positions) = 0
    THEN p
    ELSE LET steps == Predator_steps(p, Predator_target(p, herb_positions))
             shuffled == IF ch = 1 /\ Len(steps) = 2 THEN <<steps[2], steps[1]>> ELSE steps
             free(c) == c \notin occupied /\ c \notin rocks
             open == SelectSeq(shuffled, free)
         IN  IF Len(open) > 0
             THEN [p EXCEPT !.intended = open[1]]
             ELSE [p EXCEPT !.intended = pos(p)]

\* Predator.decide, with ch the outcome of the random call
Predator_decide(p, herb_positions, occupied, ch) ==
    IF Len(herb_positions) = 0
    THEN IF Predator_opts(p, occupied) # {}
         THEN [p EXCEPT !.intended = Neighbour(pos(p), ch)]
         ELSE [p EXCEPT !.intended = pos(p)]
    ELSE LET steps == Predator_steps(p, Predator_target(p, herb_positions))
             shuffled == IF ch = 1 /\ Len(steps) = 2 THEN <<steps[2], steps[1]>> ELSE steps
             free(c) == c \notin occupied /\ c \notin rocks
             open == SelectSeq(shuffled, free)
         IN  IF Len(open) > 0
             THEN [p EXCEPT !.intended = open[1]]
             ELSE [p EXCEPT !.intended = pos(p)]

\* Predator.move
Predator_move(p) ==
    IF p.wait # 0
    THEN [p EXCEPT !.wait = @ - 1]
    ELSE [p EXCEPT !.x = p.intended[1], !.y = p.intended[2]]

\* herb_dict = {h.pos(): h for h in herb}, as the list of its values in key
\* order: one herbivore per position, the last of the list that stands there,
\* at the place of the first.
herb_dict_of(hs) ==
    LET firsts == SortedSeq({i \in 1 .. Len(hs) :
                               \A j \in 1 .. (i - 1) : pos(hs[j]) # pos(hs[i])})
        last(i) == CHOOSE j \in 1 .. Len(hs) :
                      /\ pos(hs[j]) = pos(hs[i])
                      /\ \A l \in (j + 1) .. Len(hs) : pos(hs[l]) # pos(hs[i])
    IN  [k \in 1 .. Len(firsts) |-> hs[last(firsts[k])]]

\* a predation that feeds the predator but leaves the prey in herb_dict
Predator_eat_keep(p, hd) ==
    IF \E k \in 1 .. Len(hd) : pos(hd[k]) = pos(p)
    THEN [agent |-> [p EXCEPT !.energy = @ + P_FOOD_GAIN, !.wait = P_FOOD_WAIT],
          herb_dict |-> hd]
    ELSE [agent |-> p, herb_dict |-> hd]

\* Predator.eat on herb_dict hd: the predator and the dictionary afterwards
Predator_eat(p, hd) ==
    IF \E k \in 1 .. Len(hd) : pos(hd[k]) = pos(p)
    THEN [agent |-> [p EXCEPT !.energy = @ + P_FOOD_GAIN, !.wait = P_FOOD_WAIT],
          herb_dict |-> SelectSeq(hd, LAMBDA h : pos(h) # pos(p))]
    ELSE [agent |-> p, herb_dict |-> hd]

\* the charge of Predator.hunger
Predator_charge(p) == IF p.wait # 0 THEN P_BASAL_COST ELSE P_MOVE_COST

\* Predator.hunger: the predator after the charge (the method returns Dead of it)
Predator_hunger(p) == [p EXCEPT !.energy = @ - Predator_charge(p)]

\* the reproduction test of the predator loop, after mover.move()
Predator_reproduces(mover, old_pos, occ_pred_after) ==
    mover.energy >= P_REPRO_TH /\ old_pos \notin occ_pred_after

\* mover.energy -= P_REPRO_COST + P_INIT
Predator_debit(mover) == [mover EXCEPT !.energy = @ - (P_REPRO_COST + P_INIT)]

RECURSIVE ResolvePred(_, _, _)
\* The loop "for pack in moveP.values()" from its k-th pack on. st holds the
\* predators, occ_pred_after and new_pred (the vacated cell and the index of
\* the parent of each newborn, in order).
ResolvePred(st, movers, k) ==
    IF k > Len(movers) THEN st
    ELSE LET i     == movers[k]
             old   == pos(st.agents[i])
             moved == Predator_move(st.agents[i])
             occ   == st.occ_after \cup {pos(moved)}
             rep   == Predator_reproduces(moved, old, occ)
         IN  ResolvePred(
                 [agents |-> [st.agents EXCEPT ![i] =
                                 IF rep THEN Predator_debit(moved) ELSE moved],
                  occ_after |-> occ,
                  new |-> IF rep THEN Append(st.new, [parent |-> i, cell |-> old])
                          ELSE st.new],
                 movers, k + 1)

RECURSIVE EatAll(_, _, _)
\* "for p in pred: p.eat(herb_dict)" from the i-th predator on
EatAll(agents, hd, i) ==
    IF i > Len(agents) THEN [agents |-> agents, herb_dict |-> hd]
    ELSE LET r == Predator_eat(agents[i], hd)
         IN  EatAll([agents EXCEPT ![i] = r.agent], r.herb_dict, i + 1)

\* the indices of the predators that ate in that loop: the first predator of
\* the list on the cell of a herbivore of herb_dict
Eaters(agents, hd) ==
    {i \in 1 .. Len(agents) :
        /\ \E k \in 1 .. Len(hd) : pos(hd[k]) = pos(agents[i])
        /\ \A j \in 1 .. (i - 1) : pos(agents[j]) # pos(agents[i])}

---------------------------------------------------------------------------
(* The predator phase of run_game *)

\* herb_positions = list(herb_dict.keys())
herb_positions_of(hs) ==
    LET hd == herb_dict_of(hs)
    IN  [k \in 1 .. Len(hd) |-> pos(hd[k])]

\* the outcomes of the random calls of "for p in pred: p.decide(...)"
PredChoiceFns(ps, hs) ==
    LET hp  == herb_positions_of(hs)
        occ == Positions(ps)
    IN  {f \in [1 .. Len(ps) -> DirIdx] :
           \A i \in 1 .. Len(ps) : f[i] \in Predator_choices(ps[i], hp, occ)}

\* "for p in pred: p.decide(herb_positions, occ_pred, rocks)"
PredDecided(ps, hs, chs) ==
    LET hp  == herb_positions_of(hs)
        occ == Positions(ps)
    IN  [i \in 1 .. Len(ps) |-> Predator_decide(ps[i], hp, occ, chs[i])]

\* The predator phase on herbivores hs and predators ps, with chs the outcomes
\* of the random calls of decide, movers the outcomes of random.choice(pack)
\* and idBase the identity of the first predator constructed.
PredatorPhase(hs, ps, chs, movers, idBase) ==
    LET hd       == herb_dict_of(hs)
        decided  == PredDecided(ps, hs, chs)
        res      == ResolvePred([agents |-> decided, occ_after |-> {}, new |-> <<>>],
                                movers, 1)
        fed      == EatAll(res.agents, hd, 1)
        ate      == Eaters(res.agents, hd)
        new_pred == [k \in 1 .. Len(res.new) |-> Predator(idBase + k - 1, res.new[k].cell)]
        all      == fed.agents \o new_pred
        charged  == [i \in 1 .. Len(all) |-> Predator_hunger(all[i])]
    IN  [pred |-> SelectSeq(charged, LAMBDA p : ~Dead(p)),
         herb |-> fed.herb_dict,
         born |-> {new_pred[k].id : k \in 1 .. Len(new_pred)},
         starved |-> {charged[i].id : i \in {j \in 1 .. Len(charged) : Dead(charged[j])}},
         consumed |-> {hd[k].id : k \in 1 .. Len(hd)}
                        \ {fed.herb_dict[k].id : k \in 1 .. Len(fed.herb_dict)},
         log |-> [i \in 1 .. Len(ps) |->
                    [id |-> ps[i].id,
                     old |-> pos(ps[i]),
                     wait0 |-> ps[i].wait,
                     energy0 |-> ps[i].energy,
                     intended |-> decided[i].intended,
                     selected |-> \E k \in 1 .. Len(movers) : movers[k] = i,
                     new |-> pos(res.agents[i]),
                     reproduced |-> \E k \in 1 .. Len(res.new) : res.new[k].parent = i,
                     children |-> {new_pred[k].id :
                                     k \in {j \in 1 .. Len(res.new) : res.new[j].parent = i}},
                     energyMoved |-> res.agents[i].energy,
                     waitMoved |-> res.agents[i].wait,
                     fed |-> i \in ate,
                     wait1 |-> fed.agents[i].wait,
                     charge |-> Predator_charge(fed.agents[i]),
                     energy1 |-> charged[i].energy,
                     culled |-> Dead(charged[i])]]]

---------------------------------------------------------------------------
(* The herbivore phase of run_game *)

\* the outcomes of random.choice(opts) of "for h in herb: h.decide(...)"
HerbChoiceFns(hs, g) ==
    LET occ_start == Positions(hs)
    IN  {f \in [1 .. Len(hs) -> DirIdx] :
           \A i \in 1 .. Len(hs) : f[i] \in Herbivore_choices(hs[i], g, occ_start)}

\* "for h in herb: h.decide(grass, occ_start, rocks)"
HerbDecided(hs, g, chs) ==
    LET occ_start == Positions(hs)
    IN  [i \in 1 .. Len(hs) |-> Herbivore_decide(hs[i], g, occ_start, chs[i])]

\* the loop over destH.values() on the decided herbivores
HerbResolved(hs, g, chs, movers) ==
    ResolveHerb([agents |-> HerbDecided(hs, g, chs), occ_after |-> {}, new |-> <<>>],
                movers, 1)

\* The herbivore phase on herbivores hs and grass g, with chs the outcomes of
\* random.choice(opts), movers those of random.choice(group), nf those of
\* random.randrange(4) for the newborns and idBase the identity of the first
\* herbivore constructed.
HerbivorePhase(hs, g, chs, movers, nf, idBase) ==
    LET decided  == HerbDecided(hs, g, chs)
        res      == ResolveHerb([agents |-> decided, occ_after |-> {}, new |-> <<>>],
                                movers, 1)
        new_herb == [k \in 1 .. Len(res.new) |->
                       Herbivore(idBase + k - 1, res.new[k].cell, nf[k])]
        fed      == ForageAll(res.agents, g, 1)
        ate      == Foragers(res.agents, g)
        charged  == [i \in 1 .. Len(hs) |-> Herbivore_hunger(fed.agents[i])]
    IN  [herb |-> SelectSeq(charged, LAMBDA h : ~Dead(h)) \o new_herb,
         grass |-> fed.grass,
         born |-> {new_herb[k].id : k \in 1 .. Len(new_herb)},
         starved |-> {charged[i].id : i \in {j \in 1 .. Len(charged) : Dead(charged[j])}},
         eaten |-> {pos(res.agents[i]) : i \in ate},
         log |-> [i \in 1 .. Len(hs) |->
                    [id |-> hs[i].id,
                     old |-> pos(hs[i]),
                     facing0 |-> hs[i].facing,
                     wait0 |-> hs[i].wait,
                     energy0 |-> hs[i].energy,
                     intended |-> decided[i].intended,
                     selected |-> \E k \in 1 .. Len(movers) : movers[k] = i,
                     new |-> pos(res.agents[i]),
                     reproduced |-> \E k \in 1 .. Len(res.new) : res.new[k].parent = i,
                     children |-> {new_herb[k].id :
                                     k \in {j \in 1 .. Len(res.new) : res.new[j].parent = i}},
                     energyMoved |-> res.agents[i].energy,
                     waitMoved |-> res.agents[i].wait,
                     fed |-> i \in ate,
                     wait1 |-> fed.agents[i].wait,
                     charge |-> Herbivore_charge(fed.agents[i]),
                     energy1 |-> charged[i].energy,
                     culled |-> Dead(charged[i])]]]

---------------------------------------------------------------------------
(* Initial worlds.  run_game draws the rocks from a noise field, the food of *)
(* every land cell at random, and the agents on distinct random cells that   *)
(* are not rock (a set of positions minus rocks, in any order).              *)

\* the rock sets explored
RockSets == {{}, {<<1, 0>>, <<2, 1>>, <<1, 2>>}}

\* the cells that may carry food initially
FoodCandidates == {<<1, 1>>, <<2, 1>>}

\* the cells the initial herbivores are drawn from
HerbCandidates == {<<0, 1>>, <<1, 0>>, <<1, 1>>}

\* the cells the initial predators are drawn from
PredCandidates == {<<0, 0>>, <<2, 1>>}

\* the directions the initial herbivores face: east and south
InitFacings == {1, 2}

\* most herbivores and predators placed initially
MaxInitHerb == 2
MaxInitPred == 2

\* The initial timers. random.random() * FOOD_REGROW is a float in
\* [0, FOOD_REGROW); update() only subtracts 1 from a timer and compares it
\* with 0, so a timer is held as its ceiling, the number of decrements left.
TimerInits == {1, FOOD_REGROW}

\* the lists of n distinct cells of S
Placements(S, n) ==
    {f \in [1 .. n -> S] : \A i, j \in 1 .. n : i # j => f[i] # f[j]}

Init ==
    /\ cfg \in Configs
    /\ rocks \in RockSets
    /\ \E fc \in SUBSET (FoodCandidates \ rocks), t0 \in TimerInits :
          grass = [food |-> [c \in Cells |-> c \in fc],
                   timer |-> [c \in Cells \ rocks |-> t0]]
    /\ \E n \in 1 .. MaxInitHerb, m \in 0 .. MaxInitPred :
       \E hp \in Placements(HerbCandidates \ rocks, n),
          pp \in Placements(PredCandidates \ rocks, m),
          hf \in [1 .. n -> InitFacings] :
          /\ herb = [i \in 1 .. n |-> Herbivore(i, hp[i], hf[i])]
          /\ pred = [i \in 1 .. m |-> Predator(n + i, pp[i])]
          /\ nextId = n + m + 1
    /\ t = 0
    /\ start = [herb |-> herb, pred |-> pred, grass |-> grass, rocks |-> rocks]
    /\ plog = <<>>
    /\ hlog = <<>>
    /\ born = {}
    /\ consumed = {}
    /\ starved = {}
    /\ eatLog = <<>>
    /\ pre = grass
    /\ calls = 0

---------------------------------------------------------------------------
(* One iteration of the main loop of run_game (not paused): t += 1, the     *)
(* predator phase, the herbivore phase, grass.update().                      *)

\* eatLog after eat() was called on the cells of eaten: no update() call yet
EatLogEat(log, eaten) ==
    [c \in (DOMAIN log) \cup eaten |->
        IF c \in eaten THEN [n |-> 0, nb |-> TRUE] ELSE log[c]]

\* eatLog after update() ran on grass g: one more call per cell, and whether
\* every call since the cell was eaten found a food neighbour on the old grid
EatLogUpdate(log, g) ==
    [c \in DOMAIN log |->
        [n |-> log[c].n + 1, nb |-> log[c].nb /\ has_food_neighbour(g, c)]]

Step ==
    /\ t < MaxTicks
    /\ \E pch \in PredChoiceFns(pred, herb) :
       \E pmv \in Arbitrations(PredDecided(pred, herb, pch)) :
       \E P \in {PredatorPhase(herb, pred, pch, pmv, nextId)} :
          /\ Len(P.pred) <= MaxPred
          /\ \E hch \in HerbChoiceFns(P.herb, grass) :
             \E hmv \in Arbitrations(HerbDecided(P.herb, grass, hch)) :
             \E nf \in [1 .. Len(HerbResolved(P.herb, grass, hch, hmv).new) -> DirIdx] :
             \E H \in {HerbivorePhase(P.herb, grass, hch, hmv, nf,
                                      nextId + Cardinality(P.born))} :
                     /\ Len(H.herb) <= MaxHerb
                     /\ t' = t + 1
                     /\ pred' = P.pred
                     /\ herb' = H.herb
                     /\ grass' = update(H.grass)
                     /\ nextId' = nextId + Cardinality(P.born) + Cardinality(H.born)
                     /\ start' = [herb |-> herb, pred |-> pred, grass |-> grass, rocks |-> rocks]
                     /\ plog' = P.log
                     /\ hlog' = H.log
                     /\ born' = P.born \cup H.born
                     /\ consumed' = P.consumed
                     /\ starved' = starved \cup P.starved \cup H.starved
                     /\ eatLog' = EatLogUpdate(EatLogEat(eatLog, H.eaten), H.grass)
                     /\ pre' = H.grass
                     /\ UNCHANGED <<cfg, rocks, calls>>

Next == Step

Spec == Init /\ [][Next]_vars

---------------------------------------------------------------------------
(* The FoodGrid on its own, driven by any caller that respects the          *)
(* precondition of eat (the cell has food): eat and update in any order.     *)

\* most FoodGrid calls made by the driver
MaxCalls == 4

\* largest FOOD_REGROW the driver is configured with
MaxRegrow == 2

\* the cells that may carry food initially under the driver
DriverFoodCandidates == {<<0, 1>>, <<1, 1>>, <<2, 1>>, <<1, 0>>}

InitFood ==
    /\ cfg \in {[SmallCfg EXCEPT !.FOOD_REGROW = r] : r \in 1 .. MaxRegrow}
    /\ rocks \in RockSets
    /\ \E fc \in SUBSET (DriverFoodCandidates \ rocks), t0 \in TimerInits :
          grass = [food |-> [c \in Cells |-> c \in fc],
                   timer |-> [c \in Cells \ rocks |-> t0]]
    /\ herb = <<>>
    /\ pred = <<>>
    /\ nextId = 1
    /\ t = 0
    /\ start = [herb |-> herb, pred |-> pred, grass |-> grass, rocks |-> rocks]
    /\ plog = <<>>
    /\ hlog = <<>>
    /\ born = {}
    /\ consumed = {}
    /\ starved = {}
    /\ eatLog = <<>>
    /\ pre = grass
    /\ calls = 0

\* a call grass.eat(x, y) on a cell that has food
FoodEat ==
    /\ calls < MaxCalls
    /\ \E c \in Cells :
          /\ has(grass, c)
          /\ grass' = eat(grass, c)
          /\ eatLog' = EatLogEat(eatLog, {c})
    /\ calls' = calls + 1
    /\ UNCHANGED <<cfg, rocks, herb, pred, t, nextId, start, plog, hlog, born,
                   consumed, starved, pre>>

\* a call grass.update()
FoodUpdate ==
    /\ calls < MaxCalls
    /\ grass' = update(grass)
    /\ eatLog' = EatLogUpdate(eatLog, grass)
    /\ pre' = grass
    /\ calls' = calls + 1
    /\ UNCHANGED <<cfg, rocks, herb, pred, t, nextId, start, plog, hlog, born,
                   consumed, starved>>

NextFood == FoodEat \/ FoodUpdate

SpecFood == InitFood /\ [][NextFood]_vars

---------------------------------------------------------------------------
(* Properties.  Every state of Spec with t >= 1 is the end of a tick; start, *)
(* plog, hlog and born describe that tick.                                   *)

\* the agents of a list stand on pairwise distinct cells
Distinct(agents) ==
    \A i, j \in 1 .. Len(agents) : i # j => pos(agents[i]) # pos(agents[j])

\* C1: at the end of every tick no two herbivores occupy the same cell.
C1_HerbivoresDistinct == Distinct(herb)

\* C2: at the end of every tick no two predators occupy the same cell.
C2_PredatorsDistinct == Distinct(pred)

\* C2 witness: a tick in which two predators claimed the same cell and one of
\* them moved there ends with both in the population.
C2_Witness ==
    /\ t >= 1
    /\ Len(pred) >= 2
    /\ \E i, j \in 1 .. Len(plog) :
          i # j /\ plog[i].intended = plog[j].intended /\ plog[i].new # plog[i].old

\* the arbitration of one phase, read off its log
ArbitrationHolds(log) ==
    /\ \A i \in 1 .. Len(log) :
          Cardinality({j \in 1 .. Len(log) :
                          log[j].intended = log[i].intended /\ log[j].selected}) = 1
    /\ \A d \in Cells :
          Cardinality({i \in 1 .. Len(log) : log[i].new = d /\ log[i].old # d}) <= 1
    /\ \A i \in 1 .. Len(log) : ~log[i].selected => log[i].new = log[i].old

\* C3: in each species phase exactly one claimant of every intended cell is
\* selected, at most one agent of the species changes its position to a given
\* cell, and every claimant that was not selected keeps its position.
C3_Arbitration == ArbitrationHolds(plog) /\ ArbitrationHolds(hlog)

\* C3 witness: two herbivores claimed the same cell, one moved there and the
\* other was not selected.
C3_Witness ==
    \E i, j \in 1 .. Len(hlog) :
       /\ i # j
       /\ hlog[i].intended = hlog[j].intended
       /\ hlog[i].selected /\ hlog[i].new = hlog[i].intended /\ hlog[i].new # hlog[i].old
       /\ ~hlog[j].selected /\ hlog[j].intended # hlog[j].old

\* the literal scenario of C4 as the start of the last tick
C4_Scenario ==
    /\ t >= 1
    /\ GRID_W = 3 /\ GRID_H = 3 /\ rocks = {}
    /\ H_MOVE_COST = 1 /\ H_FOOD_GAIN = 3 /\ H_FOOD_WAIT = 1
    /\ Len(start.pred) = 0
    /\ {c \in Cells : start.grass.food[c]} = {<<1, 1>>}
    /\ Len(start.herb) = 1
    /\ pos(start.herb[1]) = <<0, 1>>
    /\ start.herb[1].facing = 1
    /\ start.herb[1].energy = 10
    /\ start.herb[1].wait = 0

\* C4 as stated: after one tick of the scenario the herbivore is at (1,1) with
\* energy 12 and digest_wait 1, and (1,1) has no food.
C4_Original ==
    C4_Scenario =>
       /\ Len(herb) = 1
       /\ pos(herb[1]) = <<1, 1>>
       /\ herb[1].energy = 12
       /\ ~has(grass, <<1, 1>>)
       /\ herb[1].wait = 1

\* C4 amended: in the scenario, with basal cost 0 and a reproduction threshold
\* above 10, after one tick the herbivore is at (1,1) with energy 13 (10 + 3
\* food gain - 0 basal cost: it is digesting when it is charged) and
\* digest_wait 1, and (1,1) has no food.
C4_Amended ==
    (C4_Scenario /\ H_BASAL_COST = 0 /\ H_REPRO_TH > 10) =>
       /\ Len(herb) = 1
       /\ pos(herb[1]) = <<1, 1>>
       /\ herb[1].energy = 13
       /\ ~has(grass, <<1, 1>>)
       /\ herb[1].wait = 1

\* C4 witness: the tick of the scenario has run
C4_Witness == C4_Scenario /\ H_BASAL_COST = 0 /\ H_REPRO_TH > 10 /\ hlog[1].fed

\* herbivores i and j of the last herbivore phase both intended the same cell,
\* which no herbivore occupied
C5_Pair(i, j) ==
    /\ i # j
    /\ hlog[i].intended = hlog[j].intended
    /\ \A k \in 1 .. Len(hlog) : hlog[k].old # hlog[i].intended

\* what C5 says of such a pair
C5_Outcome(i, j) ==
    /\ \/ hlog[i].new = hlog[i].intended /\ hlog[j].new = hlog[j].old
       \/ hlog[j].new = hlog[j].intended /\ hlog[i].new = hlog[i].old
    /\ hlog[i].energy1 = hlog[i].energy0 - H_MOVE_COST
    /\ hlog[j].energy1 = hlog[j].energy0 - H_MOVE_COST

C5_Plain(i, j) ==
    /\ \A k \in 1 .. Len(hlog) :
          hlog[k].intended = hlog[i].intended => k \in {i, j}
    /\ hlog[i].wait0 = 0 /\ hlog[j].wait0 = 0
    /\ hlog[i].energy0 < H_REPRO_TH /\ hlog[j].energy0 < H_REPRO_TH
    /\ ~start.grass.food[hlog[i].intended]
    /\ ~start.grass.food[hlog[i].old] /\ ~start.grass.food[hlog[j].old]

Ids(agents) == {agents[i].id : i \in 1 .. Len(agents)}

\* C6: every herbivore and predator of the population has energy > 0, and no
\* agent whose energy was 0 or below after its metabolic charge is in the
\* population at the end of that tick or later.
C6_Starvation ==
    /\ \A i \in 1 .. Len(herb) : herb[i].energy > 0
    /\ \A i \in 1 .. Len(pred) : pred[i].energy > 0
    /\ (Ids(herb) \cup Ids(pred)) \cap starved = {}
    /\ \A i \in 1 .. Len(hlog) : hlog[i].energy1 <= 0 => hlog[i].id \notin Ids(herb)
    /\ \A i \in 1 .. Len(plog) : plog[i].energy1 <= 0 => plog[i].id \notin Ids(pred)

\* C6 witness: a herbivore was charged down to exactly 0 in the last tick
\* while another agent survived it
C6_Witness ==
    /\ \E i \in 1 .. Len(hlog) : hlog[i].energy1 = 0
    /\ Len(herb) + Len(pred) >= 1

\* C7: an agent that reproduces has, right after, its energy of before minus
\* (reproduction cost + initial energy) of its species, and leaves exactly one
\* newborn, on the cell it vacated in that tick.
C7_ReproductionDebit ==
    /\ \A i \in 1 .. Len(hlog) :
          hlog[i].reproduced =>
             /\ hlog[i].energyMoved = hlog[i].energy0 - (H_REPRO_COST + H_INIT)
             /\ hlog[i].new # hlog[i].old
             /\ Cardinality(hlog[i].children) = 1
             /\ \A c \in hlog[i].children :
                   \E k \in 1 .. Len(herb) : herb[k].id = c /\ pos(herb[k]) = hlog[i].old
    /\ \A i \in 1 .. Len(plog) :
          plog[i].reproduced =>
             /\ plog[i].energyMoved = plog[i].energy0 - (P_REPRO_COST + P_INIT)
             /\ plog[i].new # plog[i].old
             /\ Cardinality(plog[i].children) = 1
             /\ \A c \in plog[i].children :
                   \/ c \in starved
                   \/ \E k \in 1 .. Len(pred) : pred[k].id = c /\ pos(pred[k]) = plog[i].old
    /\ Cardinality(born) =
          Cardinality({i \in 1 .. Len(hlog) : hlog[i].reproduced})
          + Cardinality({i \in 1 .. Len(plog) : plog[i].reproduced})

\* C7 witness: a herbivore and a predator both reproduced in the last tick
C7_Witness ==
    /\ \E i \in 1 .. Len(hlog) : hlog[i].reproduced
    /\ \E i \in 1 .. Len(plog) : plog[i].reproduced

\* C8 as stated: at the end of the tick in which it is born a newborn has the
\* initial energy of its species and digest_wait 0.
C8_NewbornEnergy ==
    /\ \A i \in 1 .. Len(herb) :
          herb[i].id \in born => herb[i].energy = H_INIT /\ herb[i].wait = 0
    /\ \A i \in 1 .. Len(pred) :
          pred[i].id \in born => pred[i].energy = P_INIT /\ pred[i].wait = 0

\* the cell of the newborn of entry i of a log is free of every other agent of
\* the phase once all its moves are applied, and of every other newborn
VacatedFree(log, i) ==
    \A j \in 1 .. Len(log) :
       j # i => /\ log[j].new # log[i].old
                /\ ~(log[j].reproduced /\ log[j].old = log[i].old)

\* C9 as stated: whenever a newborn is placed, the energy of its parent before
\* the debit was at or above the reproduction threshold of the species, and no
\* other agent of the species is on the cell of the newborn once all moves of
\* the phase are applied.
C9_ReproductionGate ==
    /\ \A i \in 1 .. Len(hlog) :
          hlog[i].reproduced => hlog[i].energy0 >= H_REPRO_TH /\ VacatedFree(hlog, i)
    /\ \A i \in 1 .. Len(plog) :
          plog[i].reproduced => plog[i].energy0 >= P_REPRO_TH /\ VacatedFree(plog, i)

\* C10: once eat(pos) was called, as long as every update() call since found a
\* food neighbour of pos on the grid it started from, pos has no food right
\* after eat and after each of the first FOOD_REGROW - 1 calls, and has food
\* from the FOOD_REGROW-th call on (until it is eaten again).
C10_EatThenRegrow ==
    \A c \in DOMAIN eatLog :
       eatLog[c].nb => (has(grass, c) <=> eatLog[c].n >= FOOD_REGROW)

\* C10 witness: with FOOD_REGROW >= 2, a cell regrew at exactly the
\* FOOD_REGROW-th update() after it was eaten
C10_Witness ==
    \E c \in DOMAIN eatLog :
       /\ FOOD_REGROW >= 2
       /\ eatLog[c].nb /\ eatLog[c].n = FOOD_REGROW /\ has(grass, c)

\* cell c carried no food and had no food on any of its four neighbours on
\* grid g
Isolated(g, c) == ~g.food[c] /\ \A idx \in DirIdx : ~g.food[Neighbour(c, idx)]

\* the timer of cell c on grid g (None on rock, held here as -1)
TimerOf(g, c) == IF c \in DOMAIN g.timer THEN g.timer[c] ELSE -1

\* C11: a foodless cell gains food or has its regrow timer advanced only if
\* one of its four toroidal neighbours had food on the grid the last update()
\* call started from (a cell that regrows in an update is no food neighbour in
\* that update), and a grid that starts with no food at all never has food.
C11_DiffusionGated ==
    /\ \A c \in Cells :
          Isolated(pre, c) =>
             ~grass.food[c] /\ TimerOf(grass, c) = TimerOf(pre, c)
    /\ (\A c \in Cells : ~start.grass.food[c]) => (\A c \in Cells : ~grass.food[c])

\* C11 witness: update() regrew a cell while a neighbour of that cell, foodless
\* and without a food neighbour before the call, stayed as it was
C11_Witness ==
    /\ calls >= 1
    /\ \E c \in Cells \ rocks : \E idx \in DirIdx :
          /\ Isolated(pre, c)
          /\ ~pre.food[Neighbour(c, idx)]
          /\ grass.food[Neighbour(c, idx)]
          /\ ~grass.food[c]

\* no entry of a phase log names a blocked cell: where the agent stood, what
\* it intended, where it ended (the cell its newborn is placed on is the one
\* it stood on)
OffRocks(log) ==
    \A i \in 1 .. Len(log) :
       log[i].old \notin rocks /\ log[i].intended \notin rocks /\ log[i].new \notin rocks

\* C12: the set of blocked cells is the one the tick began with, no blocked
\* cell has food, and no herbivore, predator or newborn stands on, intends or
\* is placed on a blocked cell.
C12_Terrain ==
    /\ rocks = start.rocks
    /\ \A c \in rocks : ~has(grass, c) /\ ~has(pre, c)
    /\ \A i \in 1 .. Len(herb) : pos(herb[i]) \notin rocks
    /\ \A i \in 1 .. Len(pred) : pos(pred[i]) \notin rocks
    /\ OffRocks(hlog) /\ OffRocks(plog)

\* a cell next to a blocked cell
NearRock(c) == \E idx \in DirIdx : Neighbour(c, idx) \in rocks

\* C12 witness: on a grid with blocked cells, a herbivore and a predator that
\* stood next to a blocked cell both changed cell in the last tick, the
\* herbivore by a random choice among its free neighbours
C12_Witness ==
    /\ rocks # {}
    /\ \E i \in 1 .. Len(hlog) :
          /\ NearRock(hlog[i].old)
          /\ hlog[i].new # hlog[i].old
          /\ ~start.grass.food[hlog[i].new]
    /\ \E i \in 1 .. Len(plog) : NearRock(plog[i].old) /\ plog[i].new # plog[i].old

\* the cells on which a herbivore foraged in the last herbivore phase
ForagedCells == {hlog[i].new : i \in {j \in 1 .. Len(hlog) : hlog[j].fed}}

\* the cells predators stood on after the moves of the last predator phase
PredatorCellsAfterMove == {plog[i].new : i \in 1 .. Len(plog)}

\* C13: the herbivores of the herbivore phase are herbivores of the start of
\* the tick, none of them consumed, deciding from the cell they had at the
\* start of the tick; a herbivore is consumed only when a predator's
\* post-move cell is the cell the herbivore had at the start of the tick, and
\* no herbivore that had such a cell takes part in the herbivore phase or is
\* in the population afterwards; herbivores forage on the grid of the start
\* of the tick, and update() runs on that grid minus what they foraged.
C13_PhaseOrder ==
    t >= 1 =>
       /\ \A i \in 1 .. Len(hlog) :
             /\ hlog[i].id \notin consumed
             /\ \E k \in 1 .. Len(start.herb) :
                   start.herb[k].id = hlog[i].id /\ pos(start.herb[k]) = hlog[i].old
             /\ hlog[i].fed => start.grass.food[hlog[i].new]
       /\ \A k \in 1 .. Len(start.herb) :
             /\ start.herb[k].id \in consumed =>
                   \E i \in 1 .. Len(plog) : plog[i].fed /\ plog[i].new = pos(start.herb[k])
             /\ pos(start.herb[k]) \in PredatorCellsAfterMove =>
                   /\ start.herb[k].id \notin Ids(herb)
                   /\ \A i \in 1 .. Len(hlog) : hlog[i].id # start.herb[k].id
       /\ consumed \cap Ids(herb) = {}
       /\ \A i \in 1 .. Len(plog) :
             plog[i].fed => \E k \in 1 .. Len(start.herb) :
                               /\ pos(start.herb[k]) = plog[i].new
                               /\ start.herb[k].id \in consumed
       /\ \A c \in Cells :
             pre.food[c] <=> (start.grass.food[c] /\ c \notin ForagedCells)
       /\ grass = update(pre)

\* C13 witness: in the last tick a predator moved onto the cell of a herbivore
\* and consumed it, and another herbivore foraged
C13_Witness ==
    /\ t >= 1
    /\ \E i \in 1 .. Len(plog) : plog[i].fed /\ plog[i].new # plog[i].old
    /\ consumed # {}
    /\ \E i \in 1 .. Len(hlog) : hlog[i].fed /\ hlog[i].new # hlog[i].old

\* what a phase log says of the digesting agents: they kept their cell, and
\* those selected as movers had digest_wait decremented by one when movement
\* was committed
DigestionHolds(log) ==
    \A i \in 1 .. Len(log) :
       log[i].wait0 > 0 =>
          /\ log[i].new = log[i].old
          /\ log[i].selected => log[i].waitMoved = log[i].wait0 - 1

\* C14: an agent of either species whose digest_wait is greater than 0 when
\* movement is committed does not change cell in that tick, even when it was
\* selected as the mover for its destination; when selected, its digest_wait
\* is decremented by exactly one instead.
C14_DigestionImmobilizes == DigestionHolds(hlog) /\ DigestionHolds(plog)

\* C14 witness: a digesting herbivore and a digesting predator were both
\* selected as the mover for a cell other than their own, and stayed
C14_Witness ==
    /\ \E i \in 1 .. Len(hlog) :
          hlog[i].wait0 > 0 /\ hlog[i].selected /\ hlog[i].intended # hlog[i].old
    /\ \E i \in 1 .. Len(plog) :
          plog[i].wait0 > 0 /\ plog[i].selected /\ plog[i].intended # plog[i].old

\* entry e of a phase log shows exactly one metabolic charge: the basal cost
\* when the agent was digesting after the feeding step, the move cost otherwise
ChargedOnce(e, gain, basal, move) ==
    /\ e.charge = (IF e.wait1 > 0 THEN basal ELSE move)
    /\ e.energy1 = e.energyMoved + (IF e.fed THEN gain ELSE 0) - e.charge

\* C15 as stated: every agent that was in its species' population at the start
\* of the tick and was not consumed is charged exactly one metabolic cost in
\* that tick, the basal cost if its digest_wait is greater than 0 after the
\* feeding step and the move cost otherwise.
C15_Metabolism ==
    t >= 1 =>
       /\ \A k \in 1 .. Len(start.herb) :
             start.herb[k].id \notin consumed =>
                \E i \in 1 .. Len(hlog) :
                   /\ hlog[i].id = start.herb[k].id
                   /\ ChargedOnce(hlog[i], H_FOOD_GAIN, H_BASAL_COST, H_MOVE_COST)
       /\ \A k \in 1 .. Len(start.pred) :
             \E i \in 1 .. Len(plog) :
                /\ plog[i].id = start.pred[k].id
                /\ ChargedOnce(plog[i], P_FOOD_GAIN, P_BASAL_COST, P_MOVE_COST)

\* cell c is next to cell d
Adjacent(c, d) == \E idx \in DirIdx : Neighbour(c, idx) = d

\* the cells next to c that are neither blocked nor in the set occupied
FreeNeighbours(c, occupied) ==
    {d \in Cells : Adjacent(c, d) /\ d \notin occupied /\ d \notin rocks}

\* C16: a species that is empty when a tick begins (at the end of the tick
\* before) is empty when it ends; the tick still runs for the other species
\* and the grid: with no predators every herbivore takes part in the herbivore
\* phase and none is consumed, with no herbivores every predator wanders (it
\* intends a free neighbour whenever it has one), is not fed and is charged
\* its metabolic cost, and in both cases update() runs on the grid the
\* herbivore phase left.
C16_ExtinctionTerminal ==
    t >= 1 =>
       /\ Len(start.pred) = 0 =>
             /\ pred = <<>> /\ plog = <<>> /\ consumed = {}
             /\ Ids(herb_dict_of(start.herb)) = {hlog[i].id : i \in 1 .. Len(hlog)}
             /\ grass = update(pre)
       /\ Len(start.herb) = 0 =>
             /\ herb = <<>> /\ hlog = <<>> /\ consumed = {}
             /\ Len(plog) = Len(start.pred)
             /\ \A i \in 1 .. Len(plog) :
                   /\ plog[i].id = start.pred[i].id
                   /\ ~plog[i].fed
                   /\ plog[i].energy1 = plog[i].energyMoved - plog[i].charge
                   /\ LET free == FreeNeighbours(plog[i].old, Positions(start.pred))
                      IN  IF free = {} THEN plog[i].intended = plog[i].old
                          ELSE plog[i].intended \in free
             /\ pre = start.grass
             /\ grass = update(pre)

\* C16 witness: the herbivores were extinct when the last tick began, after a
\* tick that had some, and a predator changed cell in it
C16_Witness ==
    /\ t = 2
    /\ Len(start.herb) = 0
    /\ \E i \in 1 .. Len(plog) : plog[i].new # plog[i].old
    /\ Len(pred) > 0

\* largest grid side for which wrap is evaluated on its own
MaxSize == 5

\* every cell a phase log names is on the grid
OnGrid(log) ==
    \A i \in 1 .. Len(log) :
       log[i].old \in Cells /\ log[i].intended \in Cells /\ log[i].new \in Cells

\* C17: the position and the intended position of every herbivore, predator
\* and newborn have x in [0, GRID_W) and y in [0, GRID_H); every neighbour
\* (cell plus one of the four unit offsets, wrapped) that the decision
\* policies and the food automaton examine is on the grid, as is every
\* candidate step of a predator towards any cell; and wrap maps a coordinate
\* plus or minus one into [0, size) for every size up to MaxSize.
C17_ToroidalWrap ==
    /\ \A i \in 1 .. Len(herb) : pos(herb[i]) \in Cells /\ herb[i].intended \in Cells
    /\ \A i \in 1 .. Len(pred) : pos(pred[i]) \in Cells /\ pred[i].intended \in Cells
    /\ OnGrid(hlog) /\ OnGrid(plog)
    /\ \A c \in Cells : \A idx \in DirIdx : Neighbour(c, idx) \in Cells
    /\ \A i \in 1 .. Len(pred) : \A target \in Cells :
          \A k \in 1 .. Len(Predator_steps(pred[i], target)) :
             Predator_steps(pred[i], target)[k] \in Cells
    /\ \A size \in 1 .. MaxSize : \A v \in 0 .. (size - 1) : \A d \in {-1, 1} :
          wrap(v + d, size) \in 0 .. (size - 1)

\* C17 witness: in the last tick a herbivore left the grid through its west
\* edge and a predator through its north edge, each reappearing on the
\* opposite side
C17_Witness ==
    /\ \E i \in 1 .. Len(hlog) : hlog[i].old[1] = 0 /\ hlog[i].new[1] = GRID_W - 1
    /\ \E i \in 1 .. Len(plog) : plog[i].old[2] = 0 /\ plog[i].new[2] = GRID_H - 1

\* what C18 says of a phase log: a digesting agent that did not feed ends the
\* tick with its digest_wait one lower
CountsDown(log) ==
    \A i \in 1 .. Len(log) :
       (log[i].wait0 > 0 /\ ~log[i].fed) => log[i].wait1 = log[i].wait0 - 1

\* C18 as stated: every agent whose digest_wait is k > 0 at the start of its
\* species' phase and which does not feed during the tick has digest_wait
\* k - 1 at the end of the tick, whatever the outcome of the arbitration for
\* the cell it intended.
C18_WaitCountsDown == CountsDown(hlog) /\ CountsDown(plog)

\* toroidal Manhattan distance between cells a and b
TorusDistance(a, b) ==
    Min2(Abs(a[1] - b[1]), GRID_W - Abs(a[1] - b[1]))
    + Min2(Abs(a[2] - b[2]), GRID_H - Abs(a[2] - b[2]))

\* the positions of the herbivores of the start of the tick
StartHerbCells == {pos(start.herb[k]) : k \in 1 .. Len(start.herb)}

\* the cells next to c that are one step nearer to cell target
StepsToward(c, target) ==
    {d \in Cells : Adjacent(c, d) /\ TorusDistance(d, target) = TorusDistance(c, target) - 1}

\* C19: with at least one herbivore present, for some nearest herbivore cell
\* (the target) the cell a predator intends is its own cell or an adjacent
\* cell that is not blocked, was not occupied by a predator at the start of
\* the phase and is exactly one step nearer to the target; and it is its own
\* cell only when the predator is on the target or every adjacent cell one
\* step nearer (there are at most two) is blocked or occupied.
C19_PredatorDecide ==
    (t >= 1 /\ Len(start.herb) > 0) =>
       \A i \in 1 .. Len(plog) :
          \E target \in StartHerbCells :
             /\ \A c \in StartHerbCells :
                   TorusDistance(plog[i].old, target) <= TorusDistance(plog[i].old, c)
             /\ Cardinality(StepsToward(plog[i].old, target)) <= 2
             /\ IF plog[i].intended = plog[i].old
                THEN \/ plog[i].old = target
                     \/ \A d \in StepsToward(plog[i].old, target) :
                           d \in rocks \/ d \in Positions(start.pred)
                ELSE /\ plog[i].intended \in StepsToward(plog[i].old, target)
                     /\ plog[i].intended \notin rocks
                     /\ plog[i].intended \notin Positions(start.pred)

\* C19 witness: a predator two steps away from the nearest herbivore, with one
\* of its two candidate steps blocked or occupied, intended the other one
C19_Witness ==
    /\ t >= 1 /\ Len(start.herb) > 0
    /\ \E i \in 1 .. Len(plog) : \E target \in StartHerbCells :
          /\ \A c \in StartHerbCells :
                TorusDistance(plog[i].old, target) <= TorusDistance(plog[i].old, c)
          /\ TorusDistance(plog[i].old, target) = 2
          /\ Cardinality(StepsToward(plog[i].old, target)) = 2
          /\ \E d \in StepsToward(plog[i].old, target) :
                d \in rocks \/ d \in Positions(start.pred)
          /\ plog[i].intended \in StepsToward(plog[i].old, target)

\* the herbivores hunger() reported dead in the last herbivore phase
StarvedHerbivores == {hlog[i].id : i \in {j \in 1 .. Len(hlog) : hlog[j].culled}}

\* the herbivores constructed in the last herbivore phase
NewbornHerbivores == UNION {hlog[i].children : i \in 1 .. Len(hlog)}

\* C20 as stated: a herbivore of the start of a tick is absent at its end only
\* if a predator consumed it in the predator phase or its energy was 0 or
\* below after its metabolic charge; and the number of herbivores at the end
\* of the tick is the number at the start minus those consumed minus those
\* starved plus the newborns.
C20_HerbivoreAccounting ==
    t >= 1 =>
       /\ \A k \in 1 .. Len(start.herb) :
             start.herb[k].id \notin Ids(herb) =>
                \/ start.herb[k].id \in consumed
                \/ start.herb[k].id \in StarvedHerbivores
       /\ Len(herb) = Len(start.herb) - Cardinality(consumed)
                      - Cardinality(StarvedHerbivores) + Cardinality(NewbornHerbivores)

\* what C21 says of a phase log: an agent that reproduced was the selected
\* mover of the cell it intended, was not digesting, intended another cell
\* than its own and stands on another cell than before
RealMove(log) ==
    \A i \in 1 .. Len(log) :
       log[i].reproduced =>
          /\ log[i].selected
          /\ log[i].wait0 = 0
          /\ log[i].intended # log[i].old
          /\ log[i].new # log[i].old

\* C21: an agent of either species reproduces in a tick only if it was the
\* arbitration-selected mover and its position after movement differs from
\* its position before; an agent that lost arbitration, was held in place by
\* digest_wait > 0 or intended its own cell does not reproduce in that tick,
\* however high its energy.
C21_ReproductionNeedsMove == RealMove(hlog) /\ RealMove(plog)

\* entry e of a log is of an agent at or above the threshold th that did not
\* reproduce
Barren(e, th) == e.energy0 >= th /\ ~e.reproduced

\* C21 witness: in the last tick a herbivore at or above the reproduction
\* threshold lost the arbitration and did not reproduce, while another agent
\* reproduced
C21_Witness ==
    /\ \E i \in 1 .. Len(hlog) : Barren(hlog[i], H_REPRO_TH) /\ ~hlog[i].selected
    /\ born # {}

\* C21, the digestion case: in the last tick a herbivore at or above the
\* reproduction threshold was selected as the mover for another cell but held
\* in place by digestion, and did not reproduce
C21_HeldByDigestion ==
    \E i \in 1 .. Len(hlog) :
       /\ Barren(hlog[i], H_REPRO_TH)
       /\ hlog[i].selected /\ hlog[i].wait0 > 0 /\ hlog[i].intended # hlog[i].old

\* C21, the own-cell case: in the last tick a herbivore at or above the
\* reproduction threshold was selected as the mover for its own cell, and did
\* not reproduce
C21_IntendedOwnCell ==
    \E i \in 1 .. Len(hlog) :
       Barren(hlog[i], H_REPRO_TH) /\ hlog[i].selected /\ hlog[i].intended = hlog[i].old

====
